---------------------------- MODULE Spec2Model ----------------------------
(* CleanML result aggregation and plotting: table.py (group,              *)
(* reduce_by_mean, get_four_metrics, compare_four_metrics, t_test) and    *)
(* plot.py (compute_difference, reindex_df, bar_plot, plot_column,        *)
(* plot_row, plot_multirow_dirty, plot_multirow_clean,                    *)
(* plot_multicolumn_clean and the argument lists of plot_outliers,        *)
(* plot_dup_incon and plot_mv).  One behaviour is one call sequence of a  *)
(* script run.  Metric scores are exact rationals                         *)
(* <<numerator, denominator>>; a zero denominator is a non-finite float   *)
(* (<<0, 0>> is NaN).                                                     *)
EXTENDS Integers, Sequences, FiniteSets, TLC

VARIABLES pc, err, result, idx, seeds, grouped, reduced,
          reduced_result, error_type, file_types, four_metrics, comparison,
          evaluation, difference, summary, call, charts, exported, events,
          data, df, index_order, columns_order, restored,
          caller, bar_names, chart, samples, statistic

vars == <<pc, err, result, idx, seeds, grouped, reduced,
          reduced_result, error_type, file_types, four_metrics, comparison,
          evaluation, difference, summary, call, charts, exported, events,
          data, df, index_order, columns_order, restored,
          caller, bar_names, chart, samples, statistic>>

plotVars == <<evaluation, difference, summary, call, charts, exported, events>>
frameVars == <<data, df, index_order, columns_order, restored>>
chartVars == <<caller, bar_names, chart>>
statVars == <<samples, statistic>>

tableVars == <<reduced_result, error_type, file_types, four_metrics, comparison>>
groupVars == <<result, idx, seeds, grouped, reduced>>

(* ------------------------------ bounds ------------------------------- *)
MaxEntries == 2
KeyArity == 2
MaxReduced == 2
MaxEvaluation == 3
MaxSummary == 2
MaxRows == 2
MaxSample == 5

(* --------------------------- float arithmetic ------------------------ *)
Abs(n) == IF n < 0 THEN -n ELSE n

RECURSIVE Gcd(_, _)
Gcd(a, b) == IF b = 0 THEN a ELSE Gcd(b, a % b)

NaN == <<0, 0>>

IsFinite(q) == q[2] # 0

Rat(n, d) ==
    IF d = 0 THEN NaN
    ELSE LET g == Gcd(Abs(n), Abs(d))
             s == IF d < 0 THEN -1 ELSE 1
         IN <<(s * n) \div g, (s * d) \div g>>

FloatAdd(x, y) ==
    IF IsFinite(x) /\ IsFinite(y)
    THEN Rat(x[1] * y[2] + y[1] * x[2], x[2] * y[2])
    ELSE NaN

FloatSub(x, y) ==
    IF IsFinite(x) /\ IsFinite(y)
    THEN Rat(x[1] * y[2] - y[1] * x[2], x[2] * y[2])
    ELSE NaN

\* x / y for a non-zero y (a zero y raises ZeroDivisionError at the call site)
FloatDiv(x, y) ==
    IF IsFinite(x) /\ IsFinite(y)
    THEN Rat(x[1] * y[2], x[2] * y[1])
    ELSE NaN

\* x > y on floats: False as soon as one of them is NaN
FloatGreater(x, y) == IsFinite(x) /\ IsFinite(y) /\ x[1] * y[2] > y[1] * x[2]

\* np.abs of one cell
np_abs(x) == IF IsFinite(x) THEN <<Abs(x[1]), x[2]>> ELSE NaN

RECURSIVE Sum(_)
Sum(vv) == IF vv = <<>> THEN <<0, 1>> ELSE FloatAdd(vv[1], Sum(Tail(vv)))

\* a mean that divides by one too many
np_mean_OffByOne(vv) ==
    IF Len(vv) = 0 THEN NaN ELSE FloatDiv(Sum(vv), <<Len(vv) + 1, 1>>)

\* np.mean: sum divided by length; the mean of an empty list is NaN
np_mean(vv) ==
    IF Len(vv) = 0 THEN NaN ELSE FloatDiv(Sum(vv), <<Len(vv), 1>>)

(* ------------------------------ mappings ----------------------------- *)
EmptyDict == <<>>

\* d[k] = v on a Python dict
Put(d, k, v) == [x \in (DOMAIN d) \cup {k} |-> IF x = k THEN v ELSE d[x]]

(* ------------------------------- group ------------------------------- *)
Chars == {"a", "b"}
Slash == "/"

\* str.split('/'): the components between the slashes, empty ones kept
RECURSIVE SplitFrom(_, _, _)
SplitFrom(k, i, cur) ==
    IF i > Len(k) THEN <<cur>>
    ELSE IF k[i] = Slash THEN <<cur>> \o SplitFrom(k, i + 1, <<>>)
    ELSE SplitFrom(k, i + 1, Append(cur, k[i]))

split(k) == SplitFrom(k, 1, <<>>)

\* tuple([old_key[i] for i in range(len(old_key)) if i != idx]), idx 0-based
RECURSIVE RemoveFrom(_, _, _)
RemoveFrom(old_key, i, ix) ==
    IF i > Len(old_key) THEN <<>>
    ELSE IF i - 1 # ix THEN <<old_key[i]>> \o RemoveFrom(old_key, i + 1, ix)
    ELSE RemoveFrom(old_key, i + 1, ix)

NewKey(old_key, ix) == RemoveFrom(old_key, 1, ix)

\* a filter that forgets the seeds
Dropped_ParamsOnly == {"best_params"}

Dropped == {"best_params", "seeds"}

\* an insert at the front instead of an append
AppendTo_Front(lists, vk, vv) ==
    Put(lists, vk, IF vk \in DOMAIN lists THEN <<vv>> \o lists[vk] ELSE <<vv>>)

\* new_result[key][vk].append(vv) on a defaultdict(list)
AppendTo(lists, vk, vv) ==
    Put(lists, vk, IF vk \in DOMAIN lists THEN Append(lists[vk], vv) ELSE <<vv>>)

\* a loop that reads new_result[key][vk] of the skipped names too, which
\* makes the defaultdict create their lists
RECURSIVE AppendValues_Touching(_, _, _)
AppendValues_Touching(lists, v, names) ==
    IF names = {} THEN lists
    ELSE LET vk == CHOOSE n \in names : TRUE
         IN AppendValues_Touching(
               IF vk \notin Dropped THEN AppendTo(lists, vk, v[vk])
               ELSE Put(lists, vk, IF vk \in DOMAIN lists THEN lists[vk] ELSE <<>>),
               v, names \ {vk})

\* for vk, vv in v.items(): if vk not in ["best_params", "seeds"]: append
RECURSIVE AppendValues(_, _, _)
AppendValues(lists, v, names) ==
    IF names = {} THEN lists
    ELSE LET vk == CHOOSE n \in names : TRUE
         IN AppendValues(IF vk \notin Dropped THEN AppendTo(lists, vk, v[vk]) ELSE lists,
                         v, names \ {vk})

\* the body of the inner loop for one (k, v) of result.items()
GroupEntry(new_result, s, e, ix) ==
    LET old_key == split(e.k)
        seed == old_key[ix + 1]
    IN IF s = seed
       THEN LET key == NewKey(old_key, ix)
                cur == IF key \in DOMAIN new_result THEN new_result[key] ELSE EmptyDict
            IN Put(new_result, key, AppendValues(cur, e.v, DOMAIN e.v))
       ELSE new_result

RECURSIVE GroupItems(_, _, _, _, _)
GroupItems(new_result, s, res, i, ix) ==
    IF i > Len(res) THEN new_result
    ELSE GroupItems(GroupEntry(new_result, s, res[i], ix), s, res, i + 1, ix)

RECURSIVE GroupSeeds(_, _, _, _, _)
GroupSeeds(new_result, sds, j, res, ix) ==
    IF j > Len(sds) THEN new_result
    ELSE GroupSeeds(GroupItems(new_result, sds[j], res, 1, ix), sds, j + 1, res, ix)

\* group(result, idx) with seeds = list({...}) taken in the order sds
group(res, ix, sds) == GroupSeeds(EmptyDict, sds, 1, res, ix)

\* {k.split('/')[idx] for k in result.keys()}
SeedSet(res, ix) == {split(res[i].k)[ix + 1] : i \in 1..Len(res)}

\* list(set): every order of the distinct elements is a possible outcome
ListsOf(S) ==
    {sq \in [1..Cardinality(S) -> S] : \A x \in S : \E i \in DOMAIN sq : sq[i] = x}

(* --------------------------- reduce_by_mean -------------------------- *)
RECURSIVE ReduceValue(_, _, _)
ReduceValue(new_value, v, names) ==
    IF names = {} THEN new_value
    ELSE LET vk == CHOOSE n \in names : TRUE
         IN ReduceValue(Put(new_value, vk, np_mean(v[vk])), v, names \ {vk})

RECURSIVE ReduceItems(_, _, _)
ReduceItems(new_result, res, keys) ==
    IF keys = {} THEN new_result
    ELSE LET k == CHOOSE x \in keys : TRUE
         IN ReduceItems(Put(new_result, k, ReduceValue(EmptyDict, res[k], DOMAIN res[k])),
                        res, keys \ {k})

reduce_by_mean(res) == ReduceItems(EmptyDict, res, DOMAIN res)


(* --------------------------- metric selector ------------------------- *)
Datasets == {"d1", "d2"}

\* utils.get_dataset(dataset_name): the dataset's configuration entry
get_dataset(dataset_name) ==
    IF dataset_name = "d2" THEN [class_imbalance |-> TRUE] ELSE <<>>

is_metric_f1(dataset_name) ==
    LET dataset == get_dataset(dataset_name)
    IN "class_imbalance" \in DOMAIN dataset /\ dataset["class_imbalance"]

\* a selector that ignores the class imbalance
get_metric_name_AccOnly(dataset_name, test_file) == test_file \o "_test_acc"

get_metric_name(dataset_name, test_file) ==
    IF is_metric_f1(dataset_name)
    THEN test_file \o "_test_f1"
    ELSE test_file \o "_test_acc"

(* ------------------------------- tables ------------------------------ *)
\* the outcome of a call: a returned value or a raised exception
Return(x) == [ok |-> TRUE, val |-> x, exc |-> "none"]
Raise(e) == [ok |-> FALSE, val |-> <<>>, exc |-> e]

KeyOf(k, positions) == [j \in 1..Len(positions) |-> k[positions[j] + 1]]

EmptyTable == [index |-> {}, columns |-> {}, cell |-> <<>>]

\* utils.dict_to_df(dic, row_keys_idx, col_keys_idx): one row per distinct
\* row key, one column per distinct column key, NaN where dic has no entry
dict_to_df(dic, row_keys_idx, col_keys_idx) ==
    LET index == {KeyOf(k, row_keys_idx) : k \in DOMAIN dic}
        columns == {KeyOf(k, col_keys_idx) : k \in DOMAIN dic}
        at(r, c) == {k \in DOMAIN dic :
                        KeyOf(k, row_keys_idx) = r /\ KeyOf(k, col_keys_idx) = c}
    IN [index |-> index, columns |-> columns,
        cell |-> [rc \in index \X columns |->
                    IF at(rc[1], rc[2]) = {} THEN NaN
                    ELSE dic[CHOOSE k \in at(rc[1], rc[2]) : TRUE]]]

(* -------------------------- get_four_metrics ------------------------- *)
\* a membership test that looks at the first element only
InList_FirstOnly(x, list) == Len(list) > 0 /\ list[1] = x

InList(x, list) == \E i \in 1..Len(list) : list[i] = x

\* for test_file in file_types: four_metrics[(...)] = v[metric_name]
RECURSIVE FourMetricsTests(_, _, _, _, _)
FourMetricsTests(acc, k, v, fts, i) ==
    IF i > Len(fts) \/ ~acc.ok THEN acc
    ELSE LET test_file == fts[i]
             metric_name == get_metric_name(k[1], test_file)
         IN IF metric_name \notin DOMAIN v THEN Raise("KeyError")
            ELSE FourMetricsTests(
                    Return(Put(acc.val, <<k[1], k[2], k[4], k[5], test_file>>, v[metric_name])),
                    k, v, fts, i + 1)

\* for (dataset, split_seed, error, train_file, model), v in result.items()
RECURSIVE FourMetricsItems(_, _, _, _, _)
FourMetricsItems(acc, res, keys, et, fts) ==
    IF keys = {} \/ ~acc.ok THEN acc
    ELSE LET k == CHOOSE x \in keys : TRUE
         IN FourMetricsItems(
               IF k[3] = et /\ InList(k[4], fts)
               THEN FourMetricsTests(acc, k, res[k], fts, 1)
               ELSE acc,
               res, keys \ {k}, et, fts)

get_four_metrics(res, et, fts) ==
    LET cells == FourMetricsItems(Return(EmptyDict), res, DOMAIN res, et, fts)
    IN IF cells.ok THEN Return(dict_to_df(cells.val, <<0, 2, 1>>, <<3, 4>>))
       ELSE cells

(* ------------------------ compare_four_metrics ----------------------- *)
\* four_metrics.loc[dataset, model]: rows (train_file, split_seed) of the
\* dataset, columns test_file of the model
Loc(fm, dataset, model) ==
    [index |-> {<<r[2], r[3]>> : r \in {x \in fm.index : x[1] = dataset}},
     columns |-> {c[2] : c \in {x \in fm.columns : x[1] = model}},
     cell |-> [rc \in {<<r[2], r[3]>> : r \in {x \in fm.index : x[1] = dataset}}
                       \X {c[2] : c \in {x \in fm.columns : x[1] = model}} |->
                 fm.cell[<<<<dataset, rc[1][1], rc[1][2]>>, <<model, rc[2]>>>>]]]

\* m.loc[train_file, test_file]: the column's values at the rows of
\* train_file, by split_seed; a label on neither axis raises KeyError
MLoc(m, train_file, test_file) ==
    LET rows == {r \in m.index : r[1] = train_file}
    IN IF rows = {} \/ test_file \notin m.columns THEN Raise("KeyError")
       ELSE Return([s \in {r[2] : r \in rows} |-> m.cell[<<<<train_file, s>>, test_file>>]])

\* the pluggable comparison lambda x, y: y - x on two columns aligned by label
compare_method(x, y) ==
    [s \in (DOMAIN x) \cup (DOMAIN y) |->
        IF s \in DOMAIN x /\ s \in DOMAIN y THEN FloatSub(y[s], x[s]) ELSE NaN]

Compare(x, y) ==
    IF ~x.ok THEN x ELSE IF ~y.ok THEN y ELSE Return(compare_method(x.val, y.val))

A(m, fts) == MLoc(m, fts[1], fts[1])
B(m, fts) == MLoc(m, fts[1], fts[2])
C(m, fts) == MLoc(m, fts[2], fts[1])
D(m, fts) == MLoc(m, fts[2], fts[2])
AB(m, fts) == Compare(A(m, fts), B(m, fts))
\* AC computed against D
AC_AgainstD(m, fts) == Compare(A(m, fts), D(m, fts))

AC(m, fts) == Compare(A(m, fts), C(m, fts))
CD(m, fts) == Compare(C(m, fts), D(m, fts))
BD(m, fts) == Compare(B(m, fts), D(m, fts))

\* the four assignments of the loop body for one (dataset, model)
ComparePair(acc, fm, fts, dataset, model) ==
    LET m == Loc(fm, dataset, model)
        ab == AB(m, fts)
        cd == CD(m, fts)
        ac == AC(m, fts)
        bd == BD(m, fts)
    IN IF ~ab.ok THEN ab
       ELSE IF ~cd.ok THEN cd
       ELSE IF ~ac.ok THEN ac
       ELSE IF ~bd.ok THEN bd
       ELSE Return(Put(Put(Put(Put(acc.val,
                <<dataset, model, "AB">>, ab.val),
                <<dataset, model, "CD">>, cd.val),
                <<dataset, model, "AC">>, ac.val),
                <<dataset, model, "BD">>, bd.val))

\* for dataset in datasets: for model in models
RECURSIVE CompareLoop(_, _, _, _)
CompareLoop(acc, fm, fts, pairs) ==
    IF pairs = {} \/ ~acc.ok THEN acc
    ELSE LET p == CHOOSE x \in pairs : TRUE
         IN CompareLoop(ComparePair(acc, fm, fts, p[1], p[2]), fm, fts, pairs \ {p})

compare_four_metrics(fm, fts) ==
    LET datasets == {r[1] : r \in fm.index}
        models == {c[1] : c \in fm.columns}
        cmp == CompareLoop(Return(EmptyDict), fm, fts, datasets \X models)
    IN IF cmp.ok THEN Return(dict_to_df(cmp.val, <<0, 1>>, <<2>>)) ELSE cmp

(* ------------------------- compute_difference ------------------------ *)
\* a relative difference taken against the value itself
DifferenceItem_ByValue(acc, ev, k) ==
    LET dirty == <<k[1], "dirty", k[3]>>
    IN IF k[2] = "dirty" THEN acc
       ELSE IF dirty \notin DOMAIN ev THEN Raise("KeyError")
       ELSE IF ev[k][1] = 0 THEN Raise("ZeroDivisionError")
       ELSE Return(Put(acc.val, k, FloatDiv(FloatSub(ev[k], ev[dirty]), ev[k])))

\* one iteration of the loop over evaluation.items()
DifferenceItem(acc, ev, k) ==
    LET dataset == k[1]
        method == k[2]
        model == k[3]
        dirty == <<dataset, "dirty", model>>
    IN IF method = "dirty" THEN acc
       ELSE IF dirty \notin DOMAIN ev THEN Raise("KeyError")
       ELSE IF ev[dirty][1] = 0 THEN Raise("ZeroDivisionError")
       ELSE Return(Put(acc.val, <<dataset, method, model>>,
                       FloatDiv(FloatSub(ev[k], ev[dirty]), ev[dirty])))

RECURSIVE DifferenceItems(_, _, _, _)
DifferenceItems(acc, ev, items, i) ==
    IF i > Len(items) \/ ~acc.ok THEN acc
    ELSE DifferenceItems(DifferenceItem(acc, ev, items[i]), ev, items, i + 1)

\* compute_difference(evaluation), the keys of evaluation in insertion order
compute_difference(ev, items) == DifferenceItems(Return(EmptyDict), ev, items, 1)

(* ------------------------------ reshaper ----------------------------- *)
\* the names of the model in the order sorted() gives them
NameOrder == <<"clean", "d1", "d2", "dirty", "e1", "m1", "m2", "other">>

Rank(name) == CHOOSE i \in 1..Len(NameOrder) : NameOrder[i] = name

\* sorted(set(...))
RECURSIVE SortedFrom(_, _)
SortedFrom(S, i) ==
    IF i > Len(NameOrder) THEN <<>>
    ELSE (IF NameOrder[i] \in S THEN <<NameOrder[i]>> ELSE <<>>) \o SortedFrom(S, i + 1)

sorted(S) == SortedFrom(S, 1)

Reverse(list) == [i \in 1..Len(list) |-> list[Len(list) + 1 - i]]

ToSet(list) == {list[i] : i \in 1..Len(list)}

\* datasets, error_types, methods, models, metrics of the keys of a result
seperate_keys(dic) ==
    [datasets |-> sorted({k[1] : k \in DOMAIN dic}),
     error_types |-> sorted({k[2] : k \in DOMAIN dic}),
     methods |-> sorted({k[3] : k \in DOMAIN dic}),
     models |-> sorted({k[4] : k \in DOMAIN dic})]

get_metric(dataset_name, test_file) ==
    IF is_metric_f1(dataset_name)
    THEN test_file \o "_test_f1"
    ELSE test_file \o "_test_acc"

\* float(s) of a summary string given by its '/'-separated fields
float(fields) == IF Len(fields) = 1 THEN Return(fields[1]) ELSE Raise("ValueError")

\* a lookup that answers a missing key with 0
Lookup_Defaulting(res, key) == IF key \in DOMAIN res THEN float(res[key]) ELSE Return(<<0, 1>>)

\* float(result[key])
Lookup(res, key) == IF key \in DOMAIN res THEN float(res[key]) ELSE Raise("KeyError")

\* [float(v) for v in result[key].split('/')]
LookupFields(res, key) == IF key \in DOMAIN res THEN Return(res[key]) ELSE Raise("KeyError")

\* a table with ordered labels on both axes
EmptyFrame == [index |-> <<>>, columns |-> <<>>, cell |-> <<>>]

\* df.loc[[dataset]] without its dataset level, the columns flattened
get_dataset_slice(table, dataset) ==
    LET rows == {r \in table.index : r[1] = dataset}
    IN IF rows = {} THEN Raise("KeyError")
       ELSE Return([index |-> sorted({r[2] : r \in rows}),
                    columns |-> sorted({c[1] : c \in table.columns}),
                    cell |-> [rc \in {r[2] : r \in rows} \X {c[1] : c \in table.columns} |->
                                table.cell[<<<<dataset, rc[1]>>, <<rc[2]>>>>]]])

\* df.values: the cells row by row in the order of the labels
df_values(frame) ==
    [i \in 1..Len(frame.index) |->
        [j \in 1..Len(frame.columns) |-> frame.cell[<<frame.index[i], frame.columns[j]>>]]]

\* a reindex that renames the axis in place and leaves the values where they are
reindex_Positional(frame, labels, axis) ==
    LET index == IF axis = 0 THEN labels ELSE frame.index
        columns == IF axis = 1 THEN labels ELSE frame.columns
        Pos(list, l) == CHOOSE i \in 1..Len(list) : list[i] = l
    IN [index |-> index, columns |-> columns,
        cell |-> [rc \in ToSet(index) \X ToSet(columns) |->
                    LET i == Pos(index, rc[1])
                        j == Pos(columns, rc[2])
                    IN IF i <= Len(frame.index) /\ j <= Len(frame.columns)
                       THEN frame.cell[<<frame.index[i], frame.columns[j]>>] ELSE NaN]]

\* df.reindex(labels, axis=axis): the requested labels in the requested
\* order, NaN for a label the axis does not have
reindex(frame, labels, axis) ==
    LET index == IF axis = 0 THEN labels ELSE frame.index
        columns == IF axis = 1 THEN labels ELSE frame.columns
    IN [index |-> index, columns |-> columns,
        cell |-> [rc \in ToSet(index) \X ToSet(columns) |->
                    IF rc[1] \in ToSet(frame.index) /\ rc[2] \in ToSet(frame.columns)
                    THEN frame.cell[rc] ELSE NaN]]

reindex_df(frame, io, co) == reindex(reindex(frame, io, 0), co, 1)

(* ------------------------------- t_test ------------------------------ *)
\* the last n elements of a sequence
Prefix_Last(s, n) == SubSeq(s, Len(s) - n + 1, Len(s))

\* s[:n]
Prefix(s, n) == SubSeq(s, 1, n)

min(x, y) == IF y < x THEN y ELSE x

RECURSIVE SumOf(_)
SumOf(d) == IF d = <<>> THEN 0 ELSE d[1] + SumOf(Tail(d))

\* the paired t statistic of the differences d: its sign, its square
\* (n - 1) * S^2 / (n * Q - S^2) with S the sum and Q the sum of squares,
\* and the degrees of freedom that fix the p-value; the statistic is NaN
\* for fewer than two pairs and for differences that are all zero, and
\* infinite for differences that are all equal and not zero
PairedStatistic(d) ==
    LET n == Len(d)
        S == SumOf(d)
        Q == SumOf([i \in 1..n |-> d[i] * d[i]])
    IN [sign |-> IF S > 0 THEN 1 ELSE IF S < 0 THEN -1 ELSE 0,
        square |-> IF n < 2 \/ (n * Q - S * S = 0 /\ S = 0) THEN NaN
                   ELSE IF n * Q - S * S = 0 THEN <<1, 0>>
                   ELSE Rat((n - 1) * S * S, n * Q - S * S),
        df |-> n - 1]

\* scipy.stats.ttest_rel(x, y): the paired test of two samples of one length
ttest_rel(x, y) ==
    IF Len(x) # Len(y) THEN Raise("ValueError")
    ELSE Return(PairedStatistic([i \in 1..Len(x) |-> x[i] - y[i]]))

t_test(x, y) ==
    LET n_a == Len(x)
        n_b == Len(y)
        n == min(n_a, n_b)
    IN ttest_rel(Prefix(x, n), Prefix(y, n))

(* ------------------------------ renderer ----------------------------- *)
\* the cells of a matrix, row after row
RECURSIVE Flatten(_)
Flatten(matrix) == IF matrix = <<>> THEN <<>> ELSE matrix[1] \o Flatten(Tail(matrix))

\* np.max of a list of floats: NaN as soon as one of them is NaN
RECURSIVE np_max(_)
np_max(cells) ==
    IF Len(cells) = 1 THEN cells[1]
    ELSE LET rest == np_max(Tail(cells))
         IN IF ~IsFinite(cells[1]) \/ ~IsFinite(rest) THEN NaN
            ELSE IF FloatGreater(rest, cells[1]) THEN rest ELSE cells[1]

\* Python's max(x, y): the first argument unless the second is greater
max(x, y) == IF FloatGreater(y, x) THEN y ELSE x

\* no chart drawn
NoChart == [series |-> <<>>, ylim |-> <<>>, legend |-> FALSE]

\* the bars of "for row, name in zip(data, bar_names)": one series per
\* pair, each shifted by one more width
BarSeries(matrix, names, width, middle_name) ==
    [i \in 1..(IF Len(matrix) < Len(names) THEN Len(matrix) ELSE Len(names)) |->
        [row |-> matrix[i],
         width |-> width,
         offset |-> Rat((i - 1) * width[1], width[2]),
         label |-> names[i],
         tick_label |-> names[i] = middle_name]]

\* bar_plot(data, xtic_labels, bar_names, xlabel, ylabel) on the matrix data
bar_plot(matrix, xtic_labels, names) ==
    LET n_bars == Len(matrix)
        n_tics == IF n_bars = 0 THEN 0 ELSE Len(matrix[1])
        width == Rat(4, 5 * n_bars)
        middle == (n_bars \div 2) + 1
        maximum == np_max([i \in 1..(n_bars * n_tics) |-> np_abs(Flatten(matrix)[i])])
        ylim == max(<<1, 10>>, maximum)
    IN IF n_bars = 0 THEN Raise("ZeroDivisionError")
       ELSE IF middle > Len(names) THEN Raise("IndexError")
       ELSE IF n_tics = 0 THEN Raise("ValueError")
       ELSE Return([series |-> BarSeries(matrix, names, width, names[middle]),
                    ylim |-> <<<<-ylim[1], ylim[2]>>, ylim>>,
                    legend |-> n_bars > 1])

(* ------------------------------ callers ------------------------------ *)
\* bar_names[1:] of plot_dup_incon
BarNames == <<"Clean Model">>

\* the models of columns_order and their tick labels (the first two)
XticLabels == <<"LR", "KNN">>

plot_outliers_index_order ==
    <<"dirty", "clean_iso_forest_delete", "clean_iso_forest_impute_mean_dummy",
      "clean_iso_forest_impute_median_dummy", "clean_IQR_delete",
      "clean_IQR_impute_mean_dummy", "clean_IQR_impute_median_dummy",
      "clean_SD_delete", "clean_SD_impute_mean_dummy", "clean_SD_impute_median_dummy">>

plot_outliers_bar_names ==
    {<<"Dirty Model", "IF Delete Model", "IF Mean Model", "IF Median Model",
       "SD Delete Model", "SD Mean Model", "SD Median Model",
       "IQR Delete Model", "IQR Mean Model", "IQR Median Model">>,
     <<"Dirty Test", "IF Delete Test", "IF Mean Test", "IF Median Test",
       "SD Delete Test", "SD Mean Test", "SD Median Test",
       "IQR Delete Test", "IQR Mean Test", "IQR Median Test">>}

plot_dup_incon_index_order == <<"dirty", "clean">>

plot_dup_incon_bar_names == {<<"Dirty Model", "Clean Model">>, <<"Dirty Test", "Clean Test">>}

plot_mv_index_order ==
    <<"dirty", "clean_impute_mean_mode", "clean_impute_mean_dummy",
      "clean_impute_median_mode", "clean_impute_median_dummy",
      "clean_impute_mode_mode", "clean_impute_mode_dummy">>

plot_mv_bar_names ==
    {<<"Delete Model", "Mean Mode Model", "Mean Dummy Model", "Median Mode Model",
       "Median Dummy Model", "Mode Dummy Model">>,
     <<"Delete Test", "Mean Mode Test", "Mean Dummy Test", "Median Mode Test",
       "Median Dummy Test", "Mode Dummy Test">>}

\* the arguments with which plot_outliers, plot_dup_incon and plot_mv call
\* the orchestration functions: index_order[1:] and bar_names[1:]
Callers ==
    {[name |-> "plot_outliers", index_order |-> Tail(plot_outliers_index_order),
      bar_names |-> Tail(names)] : names \in plot_outliers_bar_names}
    \cup {[name |-> "plot_dup_incon", index_order |-> Tail(plot_dup_incon_index_order),
           bar_names |-> Tail(names)] : names \in plot_dup_incon_bar_names}
    \cup {[name |-> "plot_mv", index_order |-> Tail(plot_mv_index_order),
           bar_names |-> Tail(names)] : names \in plot_mv_bar_names}

(* --------------------------- orchestration --------------------------- *)
\* an insertion-ordered dict: its keys in insertion order and its values
EmptyOrdered == [keys |-> <<>>, val |-> <<>>]

OPut(od, k, v) ==
    [keys |-> IF k \in DOMAIN od.val THEN od.keys ELSE Append(od.keys, k),
     val |-> Put(od.val, k, v)]

\* the pairs <<x, y>> of two nested loops, x outermost
RECURSIVE Nested(_, _, _)
Nested(xs, ys, i) ==
    IF i > Len(xs) THEN <<>>
    ELSE [j \in 1..Len(ys) |-> <<xs[i], ys[j]>>] \o Nested(xs, ys, i + 1)

\* utils.get_filenames(error_type): the file names of an error type
get_filenames(error) == <<"dirty", "clean">>

\* sorted([f for f in test_files if f != 'dirty'])[::-1]
clean_methods_of(error) == Reverse(sorted(ToSet(get_filenames(error)) \ {"dirty"}))

\* the chart loop and the export: for dataset in datasets: slice, reindex,
\* bar_plot, save_fig; then dict_to_xls.  log lists the calls in the order
\* in which they were made.
RECURSIVE RenderFrom(_, _, _, _, _, _, _)
RenderFrom(done, log, table, datasets, i, io, co) ==
    IF i > Len(datasets)
    THEN [charts |-> done, exported |-> TRUE, exc |-> "none",
          log |-> Append(log, <<"dict_to_xls">>)]
    ELSE LET slice == get_dataset_slice(table, datasets[i])
             frame == reindex_df(slice.val, io, co)
             plot == bar_plot(df_values(frame), XticLabels, BarNames)
         IN IF ~slice.ok
            THEN [charts |-> done, exported |-> FALSE, exc |-> slice.exc, log |-> log]
            ELSE IF ~plot.ok
            THEN [charts |-> done, exported |-> FALSE, exc |-> plot.exc, log |-> log]
            ELSE RenderFrom(Append(done, [dataset |-> datasets[i], data |-> frame,
                                          plot |-> plot.val]),
                            log \o <<<<"bar_plot", datasets[i]>>, <<"save_fig", datasets[i]>>>>,
                            table, datasets, i + 1, io, co)

\* a renderer that writes the spreadsheet before it draws the charts
Render_ExportFirst(diff, datasets, io, co) ==
    LET r == RenderFrom(<<>>, <<<<"difference">>, <<"dict_to_xls">>>>,
                        dict_to_df(diff, <<0, 1>>, <<2>>), datasets, 1, io, co)
    IN [r EXCEPT !.log = IF r.exported THEN SubSeq(r.log, 1, Len(r.log) - 1) ELSE r.log]

\* everything after the difference is computed
Render(diff, datasets, io, co) ==
    RenderFrom(<<>>, <<<<"difference">>>>, dict_to_df(diff, <<0, 1>>, <<2>>), datasets, 1, io, co)

\* the outcome of an orchestration function
Outcome(ev, diff, rendered) ==
    [evaluation |-> ev, difference |-> diff, charts |-> rendered.charts,
     exported |-> rendered.exported, exc |-> rendered.exc, log |-> rendered.log]

Failed(exc) ==
    [evaluation |-> EmptyDict, difference |-> EmptyDict, charts |-> <<>>,
     exported |-> FALSE, exc |-> exc, log |-> <<>>]

\* evaluation[(dataset, method, model)] = float(result[(..., metric)])
RECURSIVE ColumnEvaluation(_, _, _, _, _, _)
ColumnEvaluation(acc, res, error, loop, i, column_name) ==
    IF i > Len(loop) \/ ~acc.ok THEN acc
    ELSE LET dataset == loop[i][1][1]
             method == loop[i][1][2]
             model == loop[i][2]
             metric == get_metric(dataset, column_name)
             v == Lookup(res, <<dataset, error, method, model, metric>>)
         IN ColumnEvaluation(
               IF v.ok THEN Return(OPut(acc.val, <<dataset, method, model>>, v.val)) ELSE v,
               res, error, loop, i + 1, column_name)

plot_column(res, io, co, column_name) ==
    LET keys == seperate_keys(res)
        loop == Nested(Nested(keys.datasets, keys.methods, 1), keys.models, 1)
        ev == ColumnEvaluation(Return(EmptyOrdered), res, keys.error_types[1], loop, 1, column_name)
    IN IF keys.error_types = <<>> THEN Failed("IndexError")
       ELSE IF ~ev.ok THEN Failed(ev.exc)
       ELSE LET diff == compute_difference(ev.val.val, ev.val.keys)
            IN IF ~diff.ok THEN Failed(diff.exc)
               ELSE Outcome(ev.val.val, diff.val, Render(diff.val, keys.datasets, io, co))

\* the dirty and the clean score of the row's method, per dataset and model
RECURSIVE RowEvaluation(_, _, _, _, _, _)
RowEvaluation(acc, res, error, loop, i, row_name) ==
    IF i > Len(loop) \/ ~acc.ok THEN acc
    ELSE LET dataset == loop[i][1]
             model == loop[i][2]
             dirty == Lookup(res, <<dataset, error, row_name, model, get_metric(dataset, "dirty")>>)
             clean == Lookup(res, <<dataset, error, row_name, model, get_metric(dataset, "clean")>>)
         IN RowEvaluation(
               IF ~dirty.ok THEN dirty
               ELSE IF ~clean.ok THEN clean
               ELSE Return(OPut(OPut(acc.val, <<dataset, "dirty", model>>, dirty.val),
                                <<dataset, "clean", model>>, clean.val)),
               res, error, loop, i + 1, row_name)

plot_row(res, io, co, row_name) ==
    LET keys == seperate_keys(res)
        loop == Nested(keys.datasets, keys.models, 1)
        ev == RowEvaluation(Return(EmptyOrdered), res, keys.error_types[1], loop, 1, row_name)
    IN IF keys.error_types = <<>> THEN Failed("IndexError")
       ELSE IF ~ev.ok THEN Failed(ev.exc)
       ELSE LET diff == compute_difference(ev.val.val, ev.val.keys)
            IN IF ~diff.ok THEN Failed(diff.exc)
               ELSE Outcome(ev.val.val, diff.val, Render(diff.val, keys.datasets, io, co))

\* for m, v in zip(clean_methods, values): evaluation[(dataset, m, model)] = v
RECURSIVE ZipEvaluation(_, _, _, _, _, _)
ZipEvaluation(od, dataset, model, cms, values, j) ==
    IF j > Len(cms) \/ j > Len(values) THEN od
    ELSE ZipEvaluation(OPut(od, <<dataset, cms[j], model>>, values[j]),
                       dataset, model, cms, values, j + 1)

RECURSIVE MultirowDirtyEvaluation(_, _, _, _, _, _)
MultirowDirtyEvaluation(acc, res, error, cms, loop, i) ==
    IF i > Len(loop) \/ ~acc.ok THEN acc
    ELSE LET dataset == loop[i][1]
             model == loop[i][2]
             dirty == Lookup(res, <<dataset, error, "dirty", model, get_metric(dataset, "dirty")>>)
             values == LookupFields(res, <<dataset, error, "dirty", model, get_metric(dataset, "clean")>>)
         IN MultirowDirtyEvaluation(
               IF ~dirty.ok THEN dirty
               ELSE IF ~values.ok THEN values
               ELSE Return(ZipEvaluation(OPut(acc.val, <<dataset, "dirty", model>>, dirty.val),
                                         dataset, model, cms, values.val, 1)),
               res, error, cms, loop, i + 1)

plot_multirow_dirty(res, io, co) ==
    LET keys == seperate_keys(res)
        error == keys.error_types[1]
        loop == Nested(keys.datasets, keys.models, 1)
        ev == MultirowDirtyEvaluation(Return(EmptyOrdered), res, error,
                                      clean_methods_of(error), loop, 1)
    IN IF keys.error_types = <<>> THEN Failed("IndexError")
       ELSE IF ~ev.ok THEN Failed(ev.exc)
       ELSE LET diff == compute_difference(ev.val.val, ev.val.keys)
            IN IF ~diff.ok THEN Failed(diff.exc)
               ELSE Outcome(ev.val.val, diff.val, Render(diff.val, keys.datasets, io, co))

\* a relative difference that reports a zero baseline as no change
RelativeDifference_Clamped(value, baseline) ==
    IF baseline[1] = 0 THEN Return(<<0, 1>>)
    ELSE Return(FloatDiv(FloatSub(value, baseline), baseline))

\* (clean_res - dirty_res) / dirty_res on Python floats
RelativeDifference(value, baseline) ==
    IF baseline[1] = 0 THEN Raise("ZeroDivisionError")
    ELSE Return(FloatDiv(FloatSub(value, baseline), baseline))

\* the body of "for method in clean_methods" of plot_multirow_clean; acc
\* holds the evaluation and the difference built so far
RECURSIVE MultirowCleanMethods(_, _, _, _, _, _, _)
MultirowCleanMethods(acc, res, error, dataset, model, cms, j) ==
    IF j > Len(cms) \/ ~acc.ok THEN acc
    ELSE LET method == cms[j]
             dirty == Lookup(res, <<dataset, error, method, model, get_metric(dataset, "dirty")>>)
             clean == Lookup(res, <<dataset, error, method, model, get_metric(dataset, "clean")>>)
             labels == IF error = "missing_values" THEN <<"Delete Test", "Impute Test">>
                       ELSE <<"Dirty Test", "Clean Test">>
             d == IF dirty.ok /\ clean.ok THEN RelativeDifference(clean.val, dirty.val) ELSE dirty
         IN MultirowCleanMethods(
               IF ~dirty.ok THEN dirty
               ELSE IF ~clean.ok THEN clean
               ELSE IF ~d.ok THEN d
               ELSE Return([ev |-> Put(Put(acc.val.ev,
                                       <<dataset, method, model, labels[1]>>, dirty.val),
                                       <<dataset, method, model, labels[2]>>, clean.val),
                            diff |-> Put(acc.val.diff, <<dataset, method, model>>, d.val)]),
               res, error, dataset, model, cms, j + 1)

RECURSIVE MultirowCleanLoop(_, _, _, _, _, _)
MultirowCleanLoop(acc, res, error, cms, loop, i) ==
    IF i > Len(loop) \/ ~acc.ok THEN acc
    ELSE MultirowCleanLoop(
            MultirowCleanMethods(acc, res, error, loop[i][1], loop[i][2], cms, 1),
            res, error, cms, loop, i + 1)

plot_multirow_clean(res, io, co) ==
    LET keys == seperate_keys(res)
        error == keys.error_types[1]
        loop == Nested(keys.datasets, keys.models, 1)
        r == MultirowCleanLoop(Return([ev |-> EmptyDict, diff |-> EmptyDict]), res, error,
                               clean_methods_of(error), loop, 1)
    IN IF keys.error_types = <<>> THEN Failed("IndexError")
       ELSE IF ~r.ok THEN Failed(r.exc)
       ELSE Outcome(r.val.ev, r.val.diff, Render(r.val.diff, keys.datasets, io, co))

\* the body of "for m, v in zip(clean_methods, values)" of plot_multicolumn_clean
RECURSIVE MulticolumnCleanZip(_, _, _, _, _, _, _, _)
MulticolumnCleanZip(acc, res, error, dataset, model, cms, values, j) ==
    IF j > Len(cms) \/ j > Len(values) \/ ~acc.ok THEN acc
    ELSE LET m == cms[j]
             v == values[j]
             clean == Lookup(res, <<dataset, error, m, model, get_metric(dataset, "clean")>>)
             labels == IF error = "missing_values" THEN <<"Delete Model", "Impute Model">>
                       ELSE <<"Dirty Model", "Clean Model">>
             d == IF clean.ok THEN RelativeDifference(clean.val, v) ELSE clean
         IN MulticolumnCleanZip(
               IF ~clean.ok THEN clean
               ELSE IF ~d.ok THEN d
               ELSE Return([ev |-> Put(Put(acc.val.ev,
                                       <<dataset, m, model, labels[1]>>, v),
                                       <<dataset, m, model, labels[2]>>, clean.val),
                            diff |-> Put(acc.val.diff, <<dataset, m, model>>, d.val)]),
               res, error, dataset, model, cms, values, j + 1)

RECURSIVE MulticolumnCleanLoop(_, _, _, _, _, _)
MulticolumnCleanLoop(acc, res, error, cms, loop, i) ==
    IF i > Len(loop) \/ ~acc.ok THEN acc
    ELSE LET dataset == loop[i][1]
             model == loop[i][2]
             values == LookupFields(res, <<dataset, error, "dirty", model, get_metric(dataset, "clean")>>)
         IN MulticolumnCleanLoop(
               IF ~values.ok THEN values
               ELSE MulticolumnCleanZip(acc, res, error, dataset, model, cms, values.val, 1),
               res, error, cms, loop, i + 1)

plot_multicolumn_clean(res, io, co) ==
    LET keys == seperate_keys(res)
        error == keys.error_types[1]
        loop == Nested(keys.datasets, keys.models, 1)
        r == MulticolumnCleanLoop(Return([ev |-> EmptyDict, diff |-> EmptyDict]), res, error,
                                  clean_methods_of(error), loop, 1)
    IN IF keys.error_types = <<>> THEN Failed("IndexError")
       ELSE IF ~r.ok THEN Failed(r.exc)
       ELSE Outcome(r.val.ev, r.val.diff, Render(r.val.diff, keys.datasets, io, co))

(* ------------------------------- inputs ------------------------------ *)
\* slash-delimited keys of KeyArity one-character components
RECURSIVE JoinFrom(_, _)
JoinFrom(comps, i) ==
    IF i > Len(comps) THEN <<>>
    ELSE IF i = Len(comps) THEN <<comps[i]>>
    ELSE <<comps[i], Slash>> \o JoinFrom(comps, i + 1)

RawKeys == {JoinFrom(c, 1) : c \in [1..KeyArity -> Chars]}

Scores == {<<1, 1>>, <<2, 1>>}

\* one experiment's value: a score under acc, a placeholder under the
\* auxiliary names
RawValues ==
    {[acc |-> <<1, 1>>],
     [acc |-> <<2, 1>>, best_params |-> <<0, 1>>, seeds |-> <<0, 1>>],
     [best_params |-> <<0, 1>>]}

RawEntries == [k : RawKeys, v : RawValues]

\* a result dict in insertion order: entries with pairwise distinct keys
RawResults ==
    UNION {{r \in [1..n -> RawEntries] :
              \A i, j \in 1..n : i # j => r[i].k # r[j].k} : n \in 0..MaxEntries}


SplitSeeds == {"0", "1"}
Models == {"m1", "m2"}
\* (error type, train file) of an entry
ErrorTrain == {<<"e1", "dirty">>, <<"e1", "clean">>, <<"e1", "other">>, <<"e2", "dirty">>}

ReducedKeys ==
    {<<d, s, et[1], et[2], m>> : d \in Datasets, s \in SplitSeeds, et \in ErrorTrain, m \in Models}

\* the metric names of a reduced entry and its scores, in tenths
ReducedValues ==
    {[dirty_test_acc |-> <<4, 5>>, clean_test_acc |-> <<3, 5>>,
      dirty_test_f1 |-> <<1, 5>>, clean_test_f1 |-> <<2, 5>>],
     [dirty_test_acc |-> <<7, 10>>, clean_test_acc |-> <<9, 10>>,
      dirty_test_f1 |-> <<1, 10>>, clean_test_f1 |-> <<3, 10>>],
     [dirty_test_acc |-> <<1, 2>>, dirty_test_f1 |-> <<1, 1>>]}

\* the subsets of S of at most n elements
RECURSIVE SubsetsUpTo(_, _)
SubsetsUpTo(S, n) ==
    IF n = 0 THEN {{}}
    ELSE LET smaller == SubsetsUpTo(S, n - 1)
         IN smaller \cup {x \cup {e} : x \in smaller, e \in S}

ReducedResults ==
    UNION {[ks -> ReducedValues] : ks \in SubsetsUpTo(ReducedKeys, MaxReduced)}

FileTypeLists == {<<"dirty", "clean">>, <<"clean", "dirty">>}

Methods == {"dirty", "clean"}

EvaluationKeys == {<<d, me, mo>> : d \in Datasets, me \in Methods, mo \in Models}

\* 0, 0.70, 0.75, 0.78 and 0.80
EvaluationValues == {<<0, 1>>, <<7, 10>>, <<3, 4>>, <<39, 50>>, <<4, 5>>}

Evaluations ==
    UNION {[ks -> EvaluationValues] : ks \in SubsetsUpTo(EvaluationKeys, MaxEvaluation)}

\* the keys of a summary of one error type, each dataset with its own metrics
SummaryKeys ==
    {<<d, "e1", me, mo, get_metric(d, t)>> :
        d \in Datasets, me \in Methods, mo \in Models, t \in {"dirty", "clean"}}

\* the summary's strings by their '/'-separated fields: "0", "0.5", "0.75", "0.5/0.75"
SummaryValues == {<<<<0, 1>>>>, <<<<1, 2>>>>, <<<<3, 4>>>>, <<<<1, 2>>, <<3, 4>>>>}

\* the summaries of up to MaxSummary entries
SparseSummaries ==
    UNION {[ks -> SummaryValues] : ks \in SubsetsUpTo(SummaryKeys, MaxSummary)}

\* the summaries of one model that hold every method and test file of
\* each of their datasets, with scores of 0.5 and 0.75
CompleteSummaries ==
    UNION {[{k \in SummaryKeys : k[1] \in ds /\ k[4] = mo} -> {<<<<1, 2>>>>, <<<<3, 4>>>>}] :
             ds \in (SUBSET Datasets) \ {{}}, mo \in Models}

Summaries == SparseSummaries \cup CompleteSummaries

\* index_order[1:] and columns_order of plot_dup_incon
IndexOrder == <<"clean">>
ColumnsOrder == <<"m1", "m2">>

\* the labels of a table's axes, and the labels a caller may request
FrameRows == {"clean", "dirty"}
FrameColumns == {"m1", "m2"}
RowLabels == {"clean", "dirty", "other"}
ColumnLabels == {"m1", "m2"}

\* the sequences without repetition over S, of any length
Orders(S) == UNION {ListsOf(T) : T \in SUBSET S}

\* a table with distinct labels on both axes and a value in every cell
Frames ==
    UNION {[index : {io}, columns : {co},
            cell : [ToSet(io) \X ToSet(co) -> {<<1, 2>>, <<3, 4>>}]] :
             io \in Orders(FrameRows) \ {<<>>}, co \in Orders(FrameColumns) \ {<<>>}}

\* the differences a chart shows: 0.05 and -0.75
ChartValues == {<<1, 20>>, <<-3, 4>>}

\* the models a dataset's slice has
SliceColumns == {<<"m1">>, <<"m1", "m2">>}

\* the labels at the positions T, in the order of labels
Pick(labels, T) == SelectSeq(labels, LAMBDA l : l \in {labels[i] : i \in T})

\* the tables get_dataset_slice can hand to reindex_df under a caller's
\* index_order: up to MaxRows of its methods, in its order
Slices(labels) ==
    UNION {[index : {Pick(labels, T)},
            columns : {co},
            cell : [ToSet(Pick(labels, T)) \X ToSet(co) -> ChartValues]] :
             T \in SubsetsUpTo(1..Len(labels), MaxRows) \ {{}}, co \in SliceColumns}

\* the scores of a sample, in hundredths
SampleValues == {0, 1}

\* the samples of up to MaxSample scores
Samples == UNION {[1..n -> SampleValues] : n \in 0..MaxSample}

\* mappings of metric lists that no call of group has built: a list may
\* be empty
ListKeys == {<<<<"a">>>>, <<<<"b">>>>}
MetricLists == {<<>>, <<<<1, 1>>>>, <<<<1, 1>>, <<2, 1>>>>}
ListResults ==
    UNION {[ks -> [{"acc"} -> MetricLists]] : ks \in SUBSET ListKeys}

(* ------------------------------ actions ------------------------------ *)
Init ==
    /\ pc = "start"
    /\ err = "none"
    /\ result = <<>>
    /\ idx = 0
    /\ seeds = <<>>
    /\ grouped = EmptyDict
    /\ reduced = EmptyDict
    /\ reduced_result = EmptyDict
    /\ error_type = ""
    /\ file_types = <<>>
    /\ four_metrics = EmptyTable
    /\ comparison = EmptyTable
    /\ evaluation = EmptyDict
    /\ difference = EmptyDict
    /\ summary = EmptyDict
    /\ call = <<>>
    /\ charts = <<>>
    /\ exported = FALSE
    /\ data = EmptyFrame
    /\ df = EmptyFrame
    /\ index_order = <<>>
    /\ columns_order = <<>>
    /\ restored = EmptyFrame
    /\ events = <<>>
    /\ caller = ""
    /\ bar_names = <<>>
    /\ chart = NoChart
    /\ samples = <<>>
    /\ statistic = <<>>

\* result = group(result, idx)
Group ==
    /\ pc = "start"
    /\ \E r \in RawResults, ix \in 0..(KeyArity - 1) :
         \E sds \in ListsOf(SeedSet(r, ix)) :
            /\ result' = r
            /\ idx' = ix
            /\ seeds' = sds
            /\ grouped' = group(r, ix, sds)
    /\ pc' = "grouped"
    /\ UNCHANGED <<err, reduced, tableVars, plotVars, frameVars, chartVars, statVars>>

\* result = reduce_by_mean(result)
ReduceByMean ==
    /\ pc = "grouped"
    /\ reduced' = reduce_by_mean(grouped)
    /\ pc' = "reduced"
    /\ UNCHANGED <<err, result, idx, seeds, grouped, tableVars, plotVars, frameVars, chartVars, statVars>>

\* result = reduce_by_mean(result) on a mapping that group has not built
ReduceLists ==
    /\ pc = "start"
    /\ \E lists \in ListResults :
          /\ grouped' = lists
          /\ reduced' = reduce_by_mean(lists)
    /\ pc' = "averaged"
    /\ UNCHANGED <<err, result, idx, seeds, tableVars, plotVars, frameVars, chartVars, statVars>>

\* four_metrics = get_four_metrics(result, error, file_types)
GetFourMetrics ==
    /\ pc = "start"
    /\ \E res \in ReducedResults, et \in {"e1"}, fts \in FileTypeLists :
          LET r == get_four_metrics(res, et, fts)
          IN /\ reduced_result' = res
             /\ error_type' = et
             /\ file_types' = fts
             /\ four_metrics' = IF r.ok THEN r.val ELSE four_metrics
             /\ err' = r.exc
    /\ pc' = "four_metrics"
    /\ UNCHANGED <<comparison, groupVars, plotVars, frameVars, chartVars, statVars>>

\* comparison = compare_four_metrics(four_metrics, file_types, compare_method)
CompareFourMetrics ==
    /\ pc = "four_metrics"
    /\ err = "none"
    /\ LET r == compare_four_metrics(four_metrics, file_types)
       IN /\ comparison' = IF r.ok THEN r.val ELSE comparison
          /\ err' = r.exc
    /\ pc' = "compared"
    /\ UNCHANGED <<reduced_result, error_type, file_types, four_metrics, groupVars, plotVars, frameVars, chartVars, statVars>>

\* difference = compute_difference(evaluation)
ComputeDifference ==
    /\ pc = "start"
    /\ \E ev \in Evaluations :
          \E items \in ListsOf(DOMAIN ev) :
             LET r == compute_difference(ev, items)
             IN /\ evaluation' = ev
                /\ difference' = IF r.ok THEN r.val ELSE difference
                /\ err' = r.exc
    /\ pc' = "difference"
    /\ UNCHANGED <<groupVars, tableVars, frameVars, chartVars, statVars,
                   summary, call, charts, exported, events>>

\* the state an orchestration function leaves behind
Orchestrate(res, fn, arg, out) ==
    /\ summary' = res
    /\ call' = <<fn, arg>>
    /\ evaluation' = out.evaluation
    /\ difference' = out.difference
    /\ charts' = out.charts
    /\ exported' = out.exported
    /\ events' = out.log
    /\ err' = out.exc
    /\ pc' = "plotted"
    /\ UNCHANGED <<groupVars, tableVars, frameVars, chartVars, statVars>>

PlotColumn ==
    /\ pc = "start"
    /\ \E res \in Summaries, column_name \in {"dirty", "clean"} :
          Orchestrate(res, "plot_column", column_name,
                      plot_column(res, IndexOrder, ColumnsOrder, column_name))

PlotRow ==
    /\ pc = "start"
    /\ \E res \in Summaries, row_name \in {"dirty", "clean"} :
          Orchestrate(res, "plot_row", row_name,
                      plot_row(res, IndexOrder, ColumnsOrder, row_name))

PlotMultirowDirty ==
    /\ pc = "start"
    /\ \E res \in Summaries :
          Orchestrate(res, "plot_multirow_dirty", "",
                      plot_multirow_dirty(res, IndexOrder, ColumnsOrder))

PlotMultirowClean ==
    /\ pc = "start"
    /\ \E res \in Summaries :
          Orchestrate(res, "plot_multirow_clean", "",
                      plot_multirow_clean(res, IndexOrder, ColumnsOrder))

PlotMulticolumnClean ==
    /\ pc = "start"
    /\ \E res \in Summaries :
          Orchestrate(res, "plot_multicolumn_clean", "",
                      plot_multicolumn_clean(res, IndexOrder, ColumnsOrder))

\* data = reindex_df(data, index_order, columns_order)
ReindexDf ==
    /\ pc = "start"
    /\ \E frame \in Frames, io \in Orders(RowLabels), co \in Orders(ColumnLabels) :
          /\ data' = frame
          /\ df' = reindex_df(frame, io, co)
          /\ index_order' = io
          /\ columns_order' = co
    /\ pc' = "reindexed"
    /\ restored' = restored
    /\ UNCHANGED <<err, groupVars, tableVars, plotVars, chartVars, statVars>>

\* restored = reindex_df(df, original rows, original columns)
ReindexBack ==
    /\ pc = "reindexed"
    /\ restored' = reindex_df(df, data.index, data.columns)
    /\ pc' = "restored"
    /\ UNCHANGED <<err, data, df, index_order, columns_order,
                   groupVars, tableVars, plotVars, chartVars, statVars>>

\* the body of "for dataset in datasets" with the arguments of a caller:
\* data = reindex_df(data, index_order, columns_order); bar_plot(data.values, ...)
DrawChart ==
    /\ pc = "start"
    /\ \E c \in Callers :
          \E slice \in Slices(c.index_order) :
             LET frame == reindex_df(slice, c.index_order, ColumnsOrder)
                 r == bar_plot(df_values(frame), XticLabels, c.bar_names)
             IN /\ caller' = c.name
                /\ bar_names' = c.bar_names
                /\ data' = slice
                /\ index_order' = c.index_order
                /\ columns_order' = ColumnsOrder
                /\ df' = frame
                /\ chart' = IF r.ok THEN r.val ELSE chart
                /\ err' = r.exc
    /\ pc' = "charted"
    /\ UNCHANGED <<restored, groupVars, tableVars, plotVars, statVars>>

\* statistic = t_test(a, b)
TTest ==
    /\ pc = "start"
    /\ \E x \in Samples, y \in Samples :
          LET r == t_test(x, y)
          IN /\ samples' = <<x, y>>
             /\ statistic' = IF r.ok THEN r.val ELSE statistic
             /\ err' = r.exc
    /\ pc' = "tested"
    /\ UNCHANGED <<groupVars, tableVars, plotVars, frameVars, chartVars>>

\* table.py: group, then reduce_by_mean
NextGroup ==
    \/ Group
    \/ ReduceByMean
    \/ ReduceLists

SpecGroup == Init /\ [][NextGroup]_vars

\* table.py: get_four_metrics, then compare_four_metrics
NextTable ==
    \/ GetFourMetrics
    \/ CompareFourMetrics

SpecTable == Init /\ [][NextTable]_vars

\* plot.py: compute_difference and the orchestration functions
NextPlot ==
    \/ ComputeDifference
    \/ PlotColumn
    \/ PlotRow
    \/ PlotMultirowDirty
    \/ PlotMultirowClean
    \/ PlotMulticolumnClean

SpecPlot == Init /\ [][NextPlot]_vars

\* the functions that look keys up in their input
NextLookup ==
    \/ NextPlot
    \/ GetFourMetrics

SpecLookup == Init /\ [][NextLookup]_vars

\* plot.py: reindex_df
NextFrame ==
    \/ ReindexDf
    \/ ReindexBack

SpecFrame == Init /\ [][NextFrame]_vars

\* plot.py: bar_plot as plot_outliers, plot_dup_incon and plot_mv have it called
NextChart ==
    \/ DrawChart

SpecChart == Init /\ [][NextChart]_vars

\* table.py: t_test
NextTest ==
    \/ TTest

SpecTest == Init /\ [][NextTest]_vars

Next ==
    \/ NextGroup
    \/ NextTable
    \/ NextPlot
    \/ NextFrame
    \/ NextChart
    \/ NextTest

Spec == Init /\ [][Next]_vars

(* ================== properties of compute_difference ================= *)
\* every (dataset, model) of the input has a non-zero dirty entry
DirtyBaselines ==
    \A k \in DOMAIN evaluation :
        /\ <<k[1], "dirty", k[3]>> \in DOMAIN evaluation
        /\ evaluation[<<k[1], "dirty", k[3]>>] # <<0, 1>>

\* q rounded to four decimals, in ten-thousandths
Round4(q) == (2 * 10000 * q[1] + q[2]) \div (2 * q[2])

\* C1: with a non-zero dirty entry for every (dataset, model), the keys of
\* compute_difference's output are the input keys whose method is not
\* 'dirty', and each value v satisfies v * dirty = value - dirty; dirty 0.70
\* and clean 0.75 give +0.0714, dirty 0.80 and clean 0.78 give -0.025.
C1_ComputeDifference ==
    (pc = "difference" /\ DirtyBaselines) =>
        /\ err = "none"
        /\ DOMAIN difference = {k \in DOMAIN evaluation : k[2] # "dirty"}
        /\ \A k \in DOMAIN difference :
              LET v == evaluation[k]
                  dirty == evaluation[<<k[1], "dirty", k[3]>>]
                  q == difference[k]
              IN /\ q[2] > 0
                 /\ q[1] * dirty[1] * v[2] * dirty[2]
                      = (v[1] * dirty[2] - dirty[1] * v[2]) * q[2] * dirty[2]
                 /\ (dirty = <<7, 10>> /\ v = <<3, 4>>) => Round4(q) = 714
                 /\ (dirty = <<4, 5>> /\ v = <<39, 50>>) => Round4(q) = -250

\* the difference of dirty 0.70 and clean 0.75 was computed next to another entry
C1_Witness ==
    /\ pc = "difference"
    /\ DirtyBaselines
    /\ Cardinality(DOMAIN evaluation) = 3
    /\ \E k \in DOMAIN difference :
          /\ evaluation[k] = <<3, 4>>
          /\ evaluation[<<k[1], "dirty", k[3]>>] = <<7, 10>>

(* =================== properties of get_four_metrics ================== *)
\* get_four_metrics has returned a table
FourDone == (pc = "four_metrics" /\ err = "none") \/ pc = "compared"

FileTypeSet == {file_types[i] : i \in 1..Len(file_types)}

\* the metric a dataset is scored by on a test file
MetricFor(dataset, test_file) ==
    IF dataset = "d2" THEN test_file \o "_test_f1" ELSE test_file \o "_test_acc"

\* the entries of the input that get_four_metrics selects
Selected ==
    {k \in DOMAIN reduced_result : k[3] = error_type /\ k[4] \in FileTypeSet}

\* the (dataset, split_seed, train_file, model, test_file) of the table's cells that hold a value
Produced ==
    {<<rc[1][1], rc[1][3], rc[1][2], rc[2][1], rc[2][2]>> :
        rc \in {x \in four_metrics.index \X four_metrics.columns : four_metrics.cell[x] # NaN}}

\* C3: the cells of get_four_metrics are the selected entries crossed with
\* the test files, each holding the entry's value of the dataset's metric
\* on that test file.
C3_FourMetricsCells ==
    FourDone =>
        /\ Produced = {<<k[1], k[2], k[4], k[5], t>> : k \in Selected, t \in FileTypeSet}
        /\ \A k \in Selected : \A t \in FileTypeSet :
              four_metrics.cell[<<<<k[1], k[4], k[2]>>, <<k[5], t>>>>]
                = reduced_result[k][MetricFor(k[1], t)]

\* entries of another error type and of a train file outside file_types
\* were passed, next to selected entries of both kinds of dataset
C3_Witness ==
    /\ pc = "four_metrics"
    /\ err = "none"
    /\ \E k \in DOMAIN reduced_result : k[3] # error_type \/ k[4] \notin FileTypeSet
    /\ \E k \in Selected : k[1] = "d2"

\* a (dataset, model) pair of the table with at least one value
Included(dataset, model) ==
    \E c \in Produced : c[1] = dataset /\ c[4] = model

\* C4 as stated: an included (dataset, model) has all four (train_file,
\* test_file) pairs
C4_AllFourPresent ==
    FourDone =>
        \A dataset \in Datasets, model \in Models :
            Included(dataset, model) =>
                \A train_file \in FileTypeSet, test_file \in FileTypeSet :
                    \E c \in Produced :
                        /\ c[1] = dataset /\ c[4] = model
                        /\ c[3] = train_file /\ c[5] = test_file

\* C4 amended: a (dataset, model) is included as soon as one entry of the
\* error type with a train file among file_types exists for it; the pairs
\* it holds are those of the train files that have an entry, each with
\* both test files.
C4_IncludedByAnyTrainFile ==
    FourDone =>
        \A dataset \in Datasets, model \in Models :
            /\ Included(dataset, model)
                 <=> \E k \in Selected : k[1] = dataset /\ k[5] = model
            /\ \A train_file \in FileTypeSet, s \in SplitSeeds, test_file \in FileTypeSet :
                  (<<dataset, s, train_file, model, test_file>> \in Produced)
                    <=> (<<dataset, s, error_type, train_file, model>> \in DOMAIN reduced_result)

\* a (dataset, model) with an entry for only one of the two train files is in the table
C4_Witness ==
    /\ FourDone
    /\ \E dataset \in Datasets, model \in Models :
          /\ Included(dataset, model)
          /\ \E train_file \in FileTypeSet :
                \A k \in Selected : ~(k[1] = dataset /\ k[5] = model /\ k[4] = train_file)

(* ================= properties of compare_four_metrics ================ *)
\* the split seeds of the rows of a dataset and train file
RowSeeds(dataset, train_file) ==
    {k[2] : k \in {x \in Selected : x[1] = dataset /\ x[4] = train_file}}

\* the score of a quadrant for one split seed, NaN where the result has no entry
Quadrant(dataset, model, train_file, test_file, s) ==
    LET k == <<dataset, s, error_type, train_file, model>>
    IN IF k \in DOMAIN reduced_result
       THEN reduced_result[k][MetricFor(dataset, test_file)]
       ELSE NaN

\* y - x of two quadrants, each <<train_file, test_file>>, by split seed
Expected(dataset, model, x, y) ==
    [s \in RowSeeds(dataset, x[1]) \cup RowSeeds(dataset, y[1]) |->
        IF s \in RowSeeds(dataset, x[1]) /\ s \in RowSeeds(dataset, y[1])
        THEN FloatSub(Quadrant(dataset, model, y[1], y[2], s),
                      Quadrant(dataset, model, x[1], x[2], s))
        ELSE NaN]

QA == <<file_types[1], file_types[1]>>
QB == <<file_types[1], file_types[2]>>
QC == <<file_types[2], file_types[1]>>
QD == <<file_types[2], file_types[2]>>

\* the scenario A = 0.8, B = 0.6, C = 0.7, D = 0.9 for one dataset, seed and model
Scenario(dataset, s, model) ==
    /\ file_types = <<"dirty", "clean">>
    /\ dataset = "d1"
    /\ <<dataset, s, error_type, "dirty", model>> \in DOMAIN reduced_result
    /\ <<dataset, s, error_type, "clean", model>> \in DOMAIN reduced_result
    /\ reduced_result[<<dataset, s, error_type, "dirty", model>>]
         = [dirty_test_acc |-> <<4, 5>>, clean_test_acc |-> <<3, 5>>,
            dirty_test_f1 |-> <<1, 5>>, clean_test_f1 |-> <<2, 5>>]
    /\ reduced_result[<<dataset, s, error_type, "clean", model>>]
         = [dirty_test_acc |-> <<7, 10>>, clean_test_acc |-> <<9, 10>>,
            dirty_test_f1 |-> <<1, 10>>, clean_test_f1 |-> <<3, 10>>]

\* C2: every row (dataset, model) of the comparison holds the labels AB,
\* AC, CD, BD with AB = compare(A, B), AC = compare(A, C), CD = compare(C, D)
\* and BD = compare(B, D); A = 0.8, B = 0.6, C = 0.7, D = 0.9 with y - x
\* gives AB = -0.2, AC = -0.1, CD = 0.2, BD = 0.3.
C2_CompareFourMetrics ==
    (pc = "compared" /\ err = "none") =>
        /\ comparison.index
             = {r[1] : r \in four_metrics.index} \X {c[1] : c \in four_metrics.columns}
        /\ comparison.index # {} => comparison.columns = {<<"AB">>, <<"AC">>, <<"CD">>, <<"BD">>}
        /\ \A r \in comparison.index :
              /\ comparison.cell[<<r, <<"AB">>>>] = Expected(r[1], r[2], QA, QB)
              /\ comparison.cell[<<r, <<"AC">>>>] = Expected(r[1], r[2], QA, QC)
              /\ comparison.cell[<<r, <<"CD">>>>] = Expected(r[1], r[2], QC, QD)
              /\ comparison.cell[<<r, <<"BD">>>>] = Expected(r[1], r[2], QB, QD)
        /\ \A s \in SplitSeeds, model \in Models :
              Scenario("d1", s, model) =>
                 /\ comparison.cell[<<<<"d1", model>>, <<"AB">>>>][s] = <<-1, 5>>
                 /\ comparison.cell[<<<<"d1", model>>, <<"AC">>>>][s] = <<-1, 10>>
                 /\ comparison.cell[<<<<"d1", model>>, <<"CD">>>>][s] = <<1, 5>>
                 /\ comparison.cell[<<<<"d1", model>>, <<"BD">>>>][s] = <<3, 10>>

\* the scenario A = 0.8, B = 0.6, C = 0.7, D = 0.9 was compared
C2_Witness ==
    /\ pc = "compared"
    /\ err = "none"
    /\ \E s \in SplitSeeds, model \in Models : Scenario("d1", s, model)

(* ===================== properties of reindex_df ====================== *)
\* a requested label that the corresponding axis of the input does not have
MissingLabel ==
    \/ \E l \in ToSet(index_order) : l \notin ToSet(data.index)
    \/ \E l \in ToSet(columns_order) : l \notin ToSet(data.columns)

\* C5: reindex_df raises an error when index_order or columns_order holds a
\* label that the axis of df does not have, and returns no table then.
C5_MissingLabelRaises ==
    (pc = "reindexed" /\ MissingLabel) => (err # "none" /\ df = EmptyFrame)

\* what reindex_df does with such a label: the returned table has exactly
\* the requested labels in the requested order, the cells of a missing
\* label hold NaN and the others keep their values
C5_MissingLabelFilled ==
    pc = "reindexed" =>
        /\ err = "none"
        /\ df.index = index_order
        /\ df.columns = columns_order
        /\ \A r \in ToSet(index_order), c \in ToSet(columns_order) :
              df.cell[<<r, c>>]
                = IF r \in ToSet(data.index) /\ c \in ToSet(data.columns)
                  THEN data.cell[<<r, c>>] ELSE NaN

\* a table was returned with a row of NaN for a label the input does not have
C5_Witness ==
    /\ pc = "reindexed"
    /\ \E r \in ToSet(index_order) :
          /\ r \notin ToSet(data.index)
          /\ \E c \in ToSet(columns_order) : df.cell[<<r, c>>] = NaN

\* index_order and columns_order are permutations of the labels of data
Permutation ==
    /\ Len(index_order) = Len(data.index) /\ ToSet(index_order) = ToSet(data.index)
    /\ Len(columns_order) = Len(data.columns) /\ ToSet(columns_order) = ToSet(data.columns)

\* C11: for permutations p of the row labels and q of the column labels of
\* a table, reindex_df(df, p, q) has its rows in the order p and its columns
\* in the order q and holds at (p[i], q[j]) the value the table held at
\* (p[i], q[j]); reindexing the result to the original orders gives the
\* original table back, cell values and label order.
C11_ReindexPermutation ==
    /\ (pc \in {"reindexed", "restored"} /\ Permutation) =>
          /\ df.index = index_order
          /\ df.columns = columns_order
          /\ \A i \in 1..Len(index_order), j \in 1..Len(columns_order) :
                df_values(df)[i][j] = data.cell[<<index_order[i], columns_order[j]>>]
    /\ (pc = "restored" /\ Permutation) =>
          /\ restored = data
          /\ df_values(restored) = df_values(data)

\* a table of two rows and two columns came back after both axes were
\* reversed, with cells that differ from one another
C11_Witness ==
    /\ pc = "restored"
    /\ Len(data.index) = 2 /\ Len(data.columns) = 2
    /\ index_order = Reverse(data.index)
    /\ columns_order = Reverse(data.columns)
    /\ df_values(df) # df_values(data)
    /\ restored = data

(* ====================== properties of bar_plot ======================= *)
\* the cells of the matrix bar_plot was called with
Cells == {df.cell[rc] : rc \in DOMAIN df.cell}

\* the limit L of the y-axis range (-L, L)
Limit == chart.ylim[2]

\* x >= y on numbers
AtLeast(x, y) == x[1] * y[2] >= y[1] * x[2]

\* C12: the y-axis range bar_plot sets is (-L, L) with L >= 0.1 and
\* L >= |cell| for every cell of the data that holds a number.
C12_YLimit ==
    (pc = "charted" /\ err = "none") =>
        /\ chart.ylim = <<<<-Limit[1], Limit[2]>>, Limit>>
        /\ AtLeast(Limit, <<1, 10>>)
        /\ \A c \in Cells : IsFinite(c) => AtLeast(Limit, np_abs(c))

\* what bar_plot sets: the claimed limit when every cell holds a number,
\* and 0.1 as soon as one cell is NaN, whatever the other cells hold
C12_YLimitOfNumbers ==
    (pc = "charted" /\ err = "none") =>
        /\ chart.ylim = <<<<-Limit[1], Limit[2]>>, Limit>>
        /\ AtLeast(Limit, <<1, 10>>)
        /\ (\A c \in Cells : IsFinite(c)) =>
              /\ \A c \in Cells : AtLeast(Limit, np_abs(c))
              /\ Limit = <<1, 10>> \/ \E c \in Cells : Limit = np_abs(c)
        /\ (\E c \in Cells : ~IsFinite(c)) => Limit = <<1, 10>>

\* a chart whose range is (-0.1, 0.1) although a cell holds -0.75
C12_Clipped ==
    /\ pc = "charted" /\ err = "none"
    /\ Limit = <<1, 10>>
    /\ <<-3, 4>> \in Cells

\* C14: bar_plot draws one series per row of data in every call the
\* orchestration makes: n series for n rows, the i-th (from 0) showing the
\* i-th row with width 0.8/n at offset i * 0.8/n.
C14_OneSeriesPerRow ==
    (pc = "charted" /\ err = "none") =>
        LET rows == df_values(df)
            n == Len(rows)
        IN /\ Len(chart.series) = n
           /\ \A i \in 1..Len(chart.series) :
                 /\ chart.series[i].row = rows[i]
                 /\ chart.series[i].width = Rat(4, 5 * n)
                 /\ chart.series[i].offset = Rat(4 * (i - 1), 5 * n)

\* what bar_plot draws: one series per (row, name) pair of zip(data,
\* bar_names), which is every row for plot_outliers and plot_dup_incon and
\* all rows but the last for plot_mv
C14_OneSeriesPerName ==
    (pc = "charted" /\ err = "none") =>
        LET rows == df_values(df)
            n == Len(rows)
        IN /\ n = Len(index_order)
           /\ Len(chart.series) = IF caller = "plot_mv" THEN n - 1 ELSE n
           /\ Len(chart.series) = IF n < Len(bar_names) THEN n ELSE Len(bar_names)
           /\ \A i \in 1..Len(chart.series) :
                 /\ chart.series[i].row = rows[i]
                 /\ chart.series[i].label = bar_names[i]
                 /\ chart.series[i].width = Rat(4, 5 * n)
                 /\ chart.series[i].offset = Rat(4 * (i - 1), 5 * n)

\* plot_mv's chart lacks the row of clean_impute_mode_dummy although the
\* dataset has values for it
C14_Undrawn ==
    /\ pc = "charted" /\ err = "none" /\ caller = "plot_mv"
    /\ "clean_impute_mode_dummy" \in ToSet(data.index)
    /\ Len(chart.series) = 5
    /\ Len(df.index) = 6

(* ======================= properties of t_test ======================== *)
\* the number of pairs: the length of the shorter sample
Pairs == IF Len(samples[1]) < Len(samples[2]) THEN Len(samples[1]) ELSE Len(samples[2])

\* C13: t_test(a, b) is the paired test of the first n = min(len(a), len(b))
\* elements of a with the first n elements of b, index by index; the
\* elements of the longer sample from index n on have no part in it.
C13_Truncation ==
    pc = "tested" =>
        /\ err = "none"
        /\ statistic = PairedStatistic([i \in 1..Pairs |-> samples[1][i] - samples[2][i]])

\* samples of 5 and 3 scores whose test differs from the test of the last
\* three of the longer one
C13_Witness ==
    /\ pc = "tested"
    /\ Len(samples[1]) = 5 /\ Len(samples[2]) = 3
    /\ statistic.df = 2
    /\ IsFinite(statistic.square)
    /\ statistic # PairedStatistic([i \in 1..3 |-> samples[1][i + 2] - samples[2][i]])

(* ======================== lookup failures ============================ *)
NoOutput == difference = EmptyDict /\ charts = <<>> /\ ~exported

\* compute_difference was given a non-dirty key whose dirty key is absent
MissingDirty ==
    \E k \in DOMAIN evaluation :
        k[2] # "dirty" /\ <<k[1], "dirty", k[3]>> \notin DOMAIN evaluation

\* compute_difference was given a non-dirty key whose dirty value is zero
ZeroDirty ==
    \E k \in DOMAIN evaluation :
        /\ k[2] # "dirty"
        /\ <<k[1], "dirty", k[3]>> \in DOMAIN evaluation
        /\ evaluation[<<k[1], "dirty", k[3]>>][1] = 0

SummaryDatasets == {k[1] : k \in DOMAIN summary}
SummaryMethods == {k[3] : k \in DOMAIN summary}
SummaryModels == {k[4] : k \in DOMAIN summary}

\* the tuples plot_column and plot_row request from the summary
Requested ==
    IF call[1] = "plot_column"
    THEN {<<d, "e1", me, mo, MetricFor(d, call[2])>> :
             d \in SummaryDatasets, me \in SummaryMethods, mo \in SummaryModels}
    ELSE {<<d, "e1", call[2], mo, MetricFor(d, t)>> :
             d \in SummaryDatasets, mo \in SummaryModels, t \in {"dirty", "clean"}}

\* every requested tuple that is present is the string of one number
Numeric == \A k \in Requested \cap DOMAIN summary : Len(summary[k]) = 1

\* get_four_metrics reads a metric name that a selected entry does not have
MissingMetric ==
    \E k \in Selected : \E t \in FileTypeSet :
        MetricFor(k[1], t) \notin DOMAIN reduced_result[k]

\* C9: a missing key is a lookup failure without output: compute_difference
\* with an absent dirty key, plot_column and plot_row with an absent
\* requested tuple, get_four_metrics with an absent metric name; no value
\* stands in for the missing one.
C9_LookupFailures ==
    /\ (pc = "difference" /\ MissingDirty) =>
          /\ NoOutput
          /\ err \in {"KeyError", "ZeroDivisionError"}
          /\ ~ZeroDirty => err = "KeyError"
    /\ (pc = "plotted" /\ call[1] \in {"plot_column", "plot_row"}
          /\ Requested \ DOMAIN summary # {}) =>
          /\ NoOutput
          /\ err \in {"KeyError", "ValueError"}
          /\ Numeric => err = "KeyError"
    /\ (pc = "four_metrics" /\ MissingMetric) =>
          /\ err = "KeyError"
          /\ four_metrics = EmptyTable

\* compute_difference failed on an absent dirty key
C9_DifferenceCase ==
    /\ pc = "difference" /\ MissingDirty /\ err = "KeyError"
    /\ Cardinality(DOMAIN evaluation) = 2

\* plot_row failed on an absent tuple of its row
C9_RowCase ==
    /\ pc = "plotted" /\ call[1] = "plot_row" /\ err = "KeyError"
    /\ Requested \ DOMAIN summary # {} /\ Requested \cap DOMAIN summary # {}

\* get_four_metrics failed on an absent metric name
C9_FourMetricsCase ==
    pc = "four_metrics" /\ MissingMetric /\ err = "KeyError" /\ Cardinality(Selected) = 2

\* plot_column failed on an absent tuple while other requested tuples are
\* present
C9_Witness ==
    /\ pc = "plotted" /\ call[1] = "plot_column" /\ err = "KeyError"
    /\ Requested \ DOMAIN summary # {}
    /\ Cardinality(Requested \cap DOMAIN summary) = 2

(* ======================= degenerate baselines ======================== *)
Inline == call # <<>> /\ call[1] \in {"plot_multirow_clean", "plot_multicolumn_clean"}

\* the baseline of an output key of the call: the dirty score that the
\* relative difference divides by
Baseline(k) ==
    IF pc = "plotted" /\ call[1] = "plot_multirow_clean"
    THEN summary[<<k[1], "e1", k[2], k[3], MetricFor(k[1], "dirty")>>][1]
    ELSE IF pc = "plotted" /\ call[1] = "plot_multicolumn_clean"
    THEN summary[<<k[1], "e1", "dirty", k[3], MetricFor(k[1], "clean")>>][1]
    ELSE evaluation[<<k[1], "dirty", k[3]>>]

\* the tuples the inline computations read from the summary
InlineRequested ==
    IF call[1] = "plot_multirow_clean"
    THEN {<<d, "e1", "clean", mo, MetricFor(d, t)>> :
             d \in SummaryDatasets, mo \in SummaryModels, t \in {"dirty", "clean"}}
    ELSE {<<d, "e1", me, mo, MetricFor(d, "clean")>> :
             d \in SummaryDatasets, mo \in SummaryModels, me \in {"dirty", "clean"}}

\* the tuple that holds the baseline of (dataset, model)
BaselineKey(d, mo) ==
    IF call[1] = "plot_multirow_clean"
    THEN <<d, "e1", "clean", mo, MetricFor(d, "dirty")>>
    ELSE <<d, "e1", "dirty", mo, MetricFor(d, "clean")>>

\* every tuple the inline computation reads is present, and each one that
\* float() is applied to as a whole is the string of one number
InlineReadable ==
    /\ InlineRequested \subseteq DOMAIN summary
    /\ \A k \in InlineRequested :
          (call[1] = "plot_multirow_clean" \/ k[3] = "clean") => Len(summary[k]) = 1

\* the baseline of some (dataset, model) of the summary is zero
ZeroBaseline ==
    \E d \in SummaryDatasets, mo \in SummaryModels :
        /\ BaselineKey(d, mo) \in DOMAIN summary
        /\ summary[BaselineKey(d, mo)][1][1] = 0

\* C10: a zero dirty baseline never yields a value: no key of the returned
\* difference has a zero baseline, and compute_difference,
\* plot_multirow_clean and plot_multicolumn_clean end in an error without
\* output when a pair's baseline is zero, a ZeroDivisionError when the
\* input has no other fault.
C10_ZeroBaselineSurfaced ==
    /\ pc \in {"difference", "plotted"} =>
          \A k \in DOMAIN difference : Baseline(k)[1] # 0
    /\ (pc = "difference" /\ ZeroDirty) =>
          /\ NoOutput
          /\ err \in {"ZeroDivisionError", "KeyError"}
          /\ ~MissingDirty => err = "ZeroDivisionError"
    /\ (pc = "plotted" /\ Inline /\ ZeroBaseline /\ InlineReadable) =>
          /\ NoOutput
          /\ err = "ZeroDivisionError"

\* compute_difference divided by a zero baseline
C10_DifferenceCase ==
    pc = "difference" /\ ZeroDirty /\ ~MissingDirty /\ err = "ZeroDivisionError"

\* plot_multicolumn_clean divided by a zero baseline
C10_MulticolumnCase ==
    /\ pc = "plotted" /\ call[1] = "plot_multicolumn_clean"
    /\ ZeroBaseline /\ InlineReadable /\ err = "ZeroDivisionError"

\* plot_multirow_clean divided by a zero baseline
C10_Witness ==
    /\ pc = "plotted" /\ call[1] = "plot_multirow_clean"
    /\ ZeroBaseline /\ InlineReadable /\ err = "ZeroDivisionError"

(* =================== the orchestration's sequence ==================== *)
\* one bar_plot and one save_fig per dataset, dataset after dataset
RECURSIVE ChartCalls(_)
ChartCalls(datasets) ==
    IF datasets = <<>> THEN <<>>
    ELSE <<<<"bar_plot", datasets[1]>>, <<"save_fig", datasets[1]>>>> \o ChartCalls(Tail(datasets))

\* C15: a call of plot_column, plot_row, plot_multirow_dirty,
\* plot_multirow_clean or plot_multicolumn_clean that completes without
\* error computes the differences of all datasets first, then makes for each
\* dataset of the result one bar_plot followed by one save_fig, and makes
\* one dict_to_xls after the last chart.
C15_OrchestrationSequence ==
    (pc = "plotted" /\ err = "none") =>
        LET datasets == sorted(SummaryDatasets)
        IN /\ events = <<<<"difference">>>> \o ChartCalls(datasets) \o <<<<"dict_to_xls">>>>
           /\ SummaryDatasets = {k[1] : k \in DOMAIN difference}
           /\ Len(charts) = Len(datasets)
           /\ \A i \in 1..Len(charts) : charts[i].dataset = datasets[i]
           /\ exported

\* every function has completed a call on a summary of two datasets
C15_Completed(fn) ==
    /\ pc = "plotted" /\ err = "none" /\ call[1] = fn
    /\ Cardinality(SummaryDatasets) = 2
    /\ Len(events) = 6

C15_Witness == C15_Completed("plot_multirow_clean")

(* ======================= properties of group ========================= *)
GroupDone == pc \in {"grouped", "reduced"}

\* the components a key was joined from
Components(k) ==
    LET c == CHOOSE x \in [1..KeyArity -> Chars] : JoinFrom(x, 1) = k
    IN [j \in 1..KeyArity |-> <<c[j]>>]

\* the components without the one at 0-based position ix
Without(c, ix) == [j \in 1..(Len(c) - 1) |-> IF j <= ix THEN c[j] ELSE c[j + 1]]

\* the 1-based positions of the entries of result that map to key and carry metric
Sources(key, metric) ==
    {i \in 1..Len(result) :
        /\ Without(Components(result[i].k), idx) = key
        /\ metric \in DOMAIN result[i].v}

Occurrences(list, x) == Cardinality({j \in 1..Len(list) : list[j] = x})

\* C6: the keys of group's output are the input keys with component idx
\* removed; each list holds one value per source entry that carries the
\* metric; best_params and seeds never appear.
C6_GroupMerges ==
    GroupDone =>
        /\ DOMAIN grouped = {Without(Components(result[i].k), idx) : i \in 1..Len(result)}
        /\ \A key \in DOMAIN grouped :
              /\ DOMAIN grouped[key] \cap {"best_params", "seeds"} = {}
              /\ \A metric \in {"acc"} :
                    IF Sources(key, metric) = {}
                    THEN metric \notin DOMAIN grouped[key]
                    ELSE /\ metric \in DOMAIN grouped[key]
                         /\ Len(grouped[key][metric]) = Cardinality(Sources(key, metric))
                         /\ \A x \in Scores :
                               Occurrences(grouped[key][metric], x)
                                 = Cardinality({i \in Sources(key, metric) :
                                                   result[i].v[metric] = x})

\* two entries that differ only in the grouping component were merged, and
\* an entry carried best_params or seeds
C6_Witness ==
    /\ pc = "grouped"
    /\ \E key \in DOMAIN grouped :
          /\ "acc" \in DOMAIN grouped[key]
          /\ Len(grouped[key]["acc"]) = 2
    /\ \E i \in 1..Len(result) : DOMAIN result[i].v \cap {"best_params", "seeds"} # {}

\* the values of the source entries in the order the input mapping yields them
RECURSIVE EncounterFrom(_, _, _)
EncounterFrom(key, metric, i) ==
    IF i > Len(result) THEN <<>>
    ELSE (IF i \in Sources(key, metric) THEN <<result[i].v[metric]>> ELSE <<>>)
         \o EncounterFrom(key, metric, i + 1)

\* C7 as stated: every list is in the encounter order of the input mapping
C7_EncounterOrder ==
    GroupDone =>
        \A key \in DOMAIN grouped : \A metric \in DOMAIN grouped[key] :
            grouped[key][metric] = EncounterFrom(key, metric, 1)

\* the position of a grouping-component value in the list seeds
SeedPos(s) == CHOOSE j \in 1..Len(seeds) : seeds[j] = s

SeedOf(i) == Components(result[i].k)[idx + 1]

\* C7 amended: every list is in the order of the list seeds (one arbitrary
\* order of the distinct grouping-component values, shared by all keys and
\* metrics of the call): the value of a source entry whose grouping
\* component comes earlier in seeds comes earlier in the list.
C7_SeedOrder ==
    GroupDone =>
        \A key \in DOMAIN grouped : \A metric \in DOMAIN grouped[key] :
            LET src == Sources(key, metric)
                rank(i) == Cardinality({h \in src : SeedPos(SeedOf(h)) <= SeedPos(SeedOf(i))})
            IN /\ Len(grouped[key][metric]) = Cardinality(src)
               /\ \A i \in src : grouped[key][metric][rank(i)] = result[i].v[metric]

\* a merged list whose order differs from the encounter order
C7_Witness ==
    /\ pc = "grouped"
    /\ \E key \in DOMAIN grouped :
          /\ "acc" \in DOMAIN grouped[key]
          /\ Len(grouped[key]["acc"]) = 2
          /\ grouped[key]["acc"] # EncounterFrom(key, "acc", 1)

(* ==================== properties of reduce_by_mean =================== *)
RECURSIVE Numerators(_)
Numerators(list) == IF list = <<>> THEN 0 ELSE list[1][1] + Numerators(Tail(list))

\* C8: reduce_by_mean keeps the keys and the metric names, and each value
\* is the sum of the list divided by its length.
C8_ReduceByMean ==
    pc = "reduced" =>
        /\ DOMAIN reduced = DOMAIN grouped
        /\ Cardinality(DOMAIN reduced) = Cardinality(DOMAIN group(result, idx, seeds))
        /\ \A k \in DOMAIN reduced :
              /\ DOMAIN reduced[k] = DOMAIN grouped[k]
              /\ \A metric \in DOMAIN grouped[k] :
                    LET list == grouped[k][metric]
                        mean == reduced[k][metric]
                    IN Len(list) > 0 =>
                          /\ mean[2] > 0
                          /\ mean[1] * Len(list) = Numerators(list) * mean[2]

\* a mean of two different scores was taken
C8_Witness ==
    /\ pc = "reduced"
    /\ \E k \in DOMAIN reduced :
          /\ "acc" \in DOMAIN reduced[k]
          /\ Len(grouped[k]["acc"]) = 2
          /\ reduced[k]["acc"][2] = 2

(* =================== the lists reduce_by_mean averages ================ *)
\* C16: every metric list in the output of group holds at least one value,
\* so reduce_by_mean of an output of group never averages an empty list and
\* yields no NaN; the NaN of an empty list shows up only for mappings that
\* group has not built.
C16_GroupListsNonEmpty ==
    /\ GroupDone =>
          \A k \in DOMAIN grouped : \A vk \in DOMAIN grouped[k] : Len(grouped[k][vk]) >= 1
    /\ pc = "reduced" =>
          \A k \in DOMAIN reduced : \A vk \in DOMAIN reduced[k] : IsFinite(reduced[k][vk])
    /\ pc = "averaged" =>
          \A k \in DOMAIN reduced : \A vk \in DOMAIN reduced[k] :
             reduced[k][vk] = NaN <=> grouped[k][vk] = <<>>

\* the mean of an empty list, from a mapping that group has not built
C16_EmptyListMean ==
    /\ pc = "averaged"
    /\ \E k \in DOMAIN reduced : reduced[k]["acc"] = NaN

\* group has met an entry that holds best_params only and one that holds a
\* score, and reduce_by_mean has averaged its output
C16_Witness ==
    /\ pc = "reduced"
    /\ \E i \in 1..Len(result) : DOMAIN result[i].v = {"best_params"}
    /\ \E k \in DOMAIN grouped : DOMAIN grouped[k] = {}
    /\ \E k \in DOMAIN grouped : "acc" \in DOMAIN grouped[k]


=============================================================================
